---- MODULE Spec2Model ----
(***************************************************************************)
(* Model of near-validation (src/src/index.ts): the gas and NEAR quantity  *)
(* parsers built on zod, the composite callFunction validator and the      *)
(* console warnings they emit.                                             *)
(*                                                                         *)
(* JavaScript bigint values are unbounded integers and JavaScript numbers  *)
(* are IEEE-754 doubles.  Both exceed the integers of the model checker,   *)
(* so naturals are kept as little-endian sequences of limbs in base 2^15   *)
(* and a double is kept as the exact value m * 2^e with m < 2^53 + 1.      *)
(***************************************************************************)
EXTENDS Integers, Sequences, FiniteSets, TLC

(***************************************************************************)
(* Unbounded naturals: <<>> is 0, no most-significant zero limb.           *)
(***************************************************************************)
Base == 32768

LimbBits == 15

RECURSIVE Pow2(_)
Pow2(n) == IF n = 0 THEN 1 ELSE 2 * Pow2(n - 1)

RECURSIVE Norm(_)
Norm(a) == IF a = <<>> THEN <<>>
           ELSE IF a[Len(a)] = 0 THEN Norm(SubSeq(a, 1, Len(a) - 1))
           ELSE a

RECURSIVE FromInt(_)
FromInt(n) == IF n = 0 THEN <<>> ELSE <<n % Base>> \o FromInt(n \div Base)

RECURSIVE AddC(_, _, _)
AddC(a, b, c) ==
    IF a = <<>> /\ b = <<>> THEN (IF c = 0 THEN <<>> ELSE <<c>>)
    ELSE LET x == IF a = <<>> THEN 0 ELSE a[1]
             y == IF b = <<>> THEN 0 ELSE b[1]
             s == x + y + c
         IN  <<s % Base>> \o AddC(IF a = <<>> THEN <<>> ELSE Tail(a),
                                  IF b = <<>> THEN <<>> ELSE Tail(b),
                                  s \div Base)

Add(a, b) == AddC(a, b, 0)

RECURSIVE MulSmallC(_, _, _)
MulSmallC(a, d, c) ==
    IF a = <<>> THEN FromInt(c)
    ELSE LET p == a[1] * d + c
         IN  <<p % Base>> \o MulSmallC(Tail(a), d, p \div Base)

\* a * d for 0 <= d <= Base
MulSmall(a, d) == Norm(MulSmallC(a, d, 0))

\* a * b, splitting b in halves so that the evaluation stays shallow
RECURSIVE Mul(_, _)
Mul(a, b) ==
    IF a = <<>> \/ b = <<>> THEN <<>>
    ELSE IF Len(b) = 1 THEN MulSmall(a, b[1])
    ELSE LET h == Len(b) \div 2
         IN  Norm(Add(Mul(a, SubSeq(b, 1, h)),
                      [i \in 1..h |-> 0] \o Mul(a, SubSeq(b, h + 1, Len(b)))))

\* quotient and remainder of a by d, 0 < d <= Base, most significant limb first
RECURSIVE DivSmallR(_, _, _, _)
DivSmallR(a, d, i, r) ==
    IF i = 0 THEN [q |-> <<>>, r |-> r]
    ELSE LET cur  == r * Base + a[i]
             rest == DivSmallR(a, d, i - 1, cur % d)
         IN  [q |-> rest.q \o <<cur \div d>>, r |-> rest.r]

DivSmall(a, d) == LET x == DivSmallR(a, d, Len(a), 0)
                  IN  [q |-> Norm(x.q), r |-> x.r]

RECURSIVE CmpAt(_, _, _)
CmpAt(a, b, i) == IF i = 0 THEN 0
                  ELSE IF a[i] < b[i] THEN -1
                  ELSE IF a[i] > b[i] THEN 1
                  ELSE CmpAt(a, b, i - 1)

\* -1, 0, 1 as a < b, a = b, a > b
Cmp(a, b) == IF Len(a) < Len(b) THEN -1
             ELSE IF Len(a) > Len(b) THEN 1
             ELSE CmpAt(a, b, Len(a))

RECURSIVE IntBitLen(_)
IntBitLen(n) == IF n = 0 THEN 0 ELSE 1 + IntBitLen(n \div 2)

BitLen(a) == IF a = <<>> THEN 0
             ELSE LimbBits * (Len(a) - 1) + IntBitLen(a[Len(a)])

IsOdd(a) == a # <<>> /\ a[1] % 2 = 1

Shl(a, n) == IF a = <<>> THEN <<>>
             ELSE [i \in 1..(n \div LimbBits) |-> 0]
                  \o MulSmall(a, Pow2(n % LimbBits))

\* floor(a / 2^n)
Shr(a, n) == IF n \div LimbBits >= Len(a) THEN <<>>
             ELSE DivSmall(SubSeq(a, (n \div LimbBits) + 1, Len(a)),
                           Pow2(n % LimbBits)).q

\* 10^n by repeated squaring
RECURSIVE Pow10(_)
Pow10(n) == IF n = 0 THEN <<1>>
            ELSE IF n % 2 = 1 THEN MulSmall(Pow10(n - 1), 10)
            ELSE LET h == Pow10(n \div 2) IN Mul(h, h)

\* the natural written by a sequence of decimal digits 0..9, by halves
RECURSIVE FromDigits(_)
FromDigits(ds) ==
    IF ds = <<>> THEN <<>>
    ELSE IF Len(ds) = 1 THEN FromInt(ds[1])
    ELSE LET h  == Len(ds) \div 2
             hi == FromDigits(SubSeq(ds, 1, h))
             lo == FromDigits(SubSeq(ds, h + 1, Len(ds)))
         IN  Norm(Add(Mul(hi, Pow10(Len(ds) - h)), lo))

\* floor(a / 10^k) together with whether a remainder was dropped
RECURSIVE DivPow10(_, _)
DivPow10(a, k) ==
    IF k = 0 THEN [q |-> a, r |-> 0]
    ELSE LET x == DivSmall(a, 10)
             y == DivPow10(x.q, k - 1)
         IN  [q |-> y.q, r |-> IF x.r # 0 \/ y.r # 0 THEN 1 ELSE 0]

\* a - b - c for a >= b + c, c the borrow 0 or 1
RECURSIVE SubC(_, _, _)
SubC(a, b, c) ==
    IF a = <<>> THEN <<>>
    ELSE LET y == IF b = <<>> THEN 0 ELSE b[1]
             d == a[1] - y - c
         IN  <<d % Base>> \o SubC(Tail(a), IF b = <<>> THEN <<>> ELSE Tail(b),
                                  IF d < 0 THEN 1 ELSE 0)

Sub(a, b) == Norm(SubC(a, b, 0))

\* the largest d in lo..hi with b * d <= r, given b * lo <= r
RECURSIVE QuotDigit(_, _, _, _)
QuotDigit(r, b, lo, hi) ==
    IF lo = hi THEN lo
    ELSE LET mid == (lo + hi + 1) \div 2
         IN  IF Cmp(MulSmall(b, mid), r) <= 0 THEN QuotDigit(r, b, mid, hi)
             ELSE QuotDigit(r, b, lo, mid - 1)

\* one step of long division: the next limb of the dividend enters the
\* remainder r, and the divisor is taken out d times
DivStep(q, r, b, d) == [q |-> <<d>> \o q, r |-> Sub(r, MulSmall(b, d))]

\* quotient and remainder of the top k limbs of a by b > 0
RECURSIVE DivModR(_, _, _)
DivModR(a, b, k) ==
    IF k = 0 THEN [q |-> <<>>, r |-> <<>>]
    ELSE LET prev == DivModR(a, b, k - 1)
             r    == Norm(<<a[Len(a) - k + 1]>> \o prev.r)
         IN  DivStep(prev.q, r, b, QuotDigit(r, b, 0, Base - 1))

DivMod(a, b) == LET x == DivModR(a, b, Len(a))
                IN  [q |-> Norm(x.q), r |-> x.r]

(***************************************************************************)
(* IEEE-754 doubles, non-negative only (the grammar admits no sign).  A    *)
(* finite double is the exact value m * 2^e; inf is +Infinity.  Every      *)
(* operation rounds to nearest, ties to even, at 53 significant bits.      *)
(* Values are at least 10^-MaxFrac here, so the subnormal range is never   *)
(* entered and is not modelled.                                            *)
(***************************************************************************)
MantBits == 53

MaxBinExp == 1024

Infinity == [inf |-> TRUE, m |-> <<>>, e |-> 0]

Finite(m, e) == [inf |-> FALSE, m |-> m, e |-> e]

\* nearest double to (n + s) * 2^e, where 0 <= s < 1 and s > 0 iff sticky;
\* a sticky n has more than MantBits + 1 bits
RoundToDouble(n, e, sticky) ==
    LET drop == BitLen(n) - MantBits
    IN  IF drop <= 0 THEN Finite(n, e)
        ELSE LET q2    == Shr(n, drop - 1)
                 guard == IsOdd(q2)
                 rest  == sticky \/ Shl(q2, drop - 1) # n
                 q     == Shr(q2, 1)
                 m     == IF guard /\ (rest \/ IsOdd(q))
                          THEN Add(q, <<1>>) ELSE q
             IN  IF BitLen(m) + e + drop > MaxBinExp THEN Infinity
                 ELSE Finite(m, e + drop)

\* Number(b) for a bigint b >= 0
Number(b) == RoundToDouble(b, 0, FALSE)

\* x * y for doubles of which y is finite and non-zero
Times(x, y) == IF x.inf \/ y.inf THEN Infinity
               ELSE RoundToDouble(Mul(x.m, y.m), x.e + y.e, FALSE)

\* Math.floor(x), x >= 0
Math_floor(x) == IF x.inf \/ x.e >= 0 THEN x
                 ELSE Finite(Shr(x.m, 0 - x.e), 0)

\* BigInt(x) for an integral double x: RangeError on Infinity
BigInt(x) == IF x.inf THEN [ok |-> FALSE, val |-> <<>>]
             ELSE [ok |-> TRUE, val |-> Shl(x.m, x.e)]

\* extra bits of quotient computed before a division is rounded
GuardBits == 2

\* x / y for doubles of which y is finite and non-zero
DividedBy(x, y) ==
    IF x.inf THEN Infinity
    ELSE IF x.m = <<>> THEN x
    ELSE LET L  == MantBits + GuardBits + BitLen(y.m)
             qr == DivMod(Shl(x.m, L), y.m)
         IN  RoundToDouble(qr.q, x.e - y.e - L, qr.r # <<>>)

\* x >= 1
GeOne(x) == x.inf \/ (x.m # <<>> /\ BitLen(x.m) + x.e >= 1)

\* how many times 2 divides n > 0
RECURSIVE IntTrailingZeros(_)
IntTrailingZeros(n) == IF n % 2 = 1 THEN 0 ELSE 1 + IntTrailingZeros(n \div 2)

\* how many times 2 divides a # <<>>
TrailingZeros(a) ==
    LET first == CHOOSE i \in 1..Len(a) :
                     a[i] # 0 /\ \A j \in 1..(i - 1) : a[j] = 0
    IN  LimbBits * (first - 1) + IntTrailingZeros(a[first])

\* the one representation of a double with an odd significand
Canonical(x) ==
    IF x.inf THEN x
    ELSE IF x.m = <<>> THEN Finite(<<>>, 0)
    ELSE Finite(Shr(x.m, TrailingZeros(x.m)), x.e + TrailingZeros(x.m))

(***************************************************************************)
(* Strings are sequences of characters; a character is a one-letter string *)
(* or, outside printable ASCII, the name of its code point.                *)
(***************************************************************************)
TAB == "U+0009"

LF == "U+000A"

NBSP == "U+00A0"

MICRO_SIGN == "U+00B5"

DOTLESS_I == "U+0131"

LONG_S == "U+017F"

CAPITAL_MU == "U+039C"

SMALL_MU == "U+03BC"

NonAscii == {NBSP, MICRO_SIGN, DOTLESS_I, LONG_S, CAPITAL_MU, SMALL_MU}

LowerAZ == <<"a", "b", "c", "d", "e", "f", "g", "h", "i", "j", "k", "l", "m",
             "n", "o", "p", "q", "r", "s", "t", "u", "v", "w", "x", "y", "z">>

UpperAZ == <<"A", "B", "C", "D", "E", "F", "G", "H", "I", "J", "K", "L", "M",
             "N", "O", "P", "Q", "R", "S", "T", "U", "V", "W", "X", "Y", "Z">>

DigitChars == <<"0", "1", "2", "3", "4", "5", "6", "7", "8", "9">>

IsIn(c, seq) == \E i \in 1..Len(seq) : seq[i] = c

IndexIn(c, seq) == CHOOSE i \in 1..Len(seq) : seq[i] = c

\* the class \d of a RegExp without the u flag: ASCII digits only
IsDigit(c) == IsIn(c, DigitChars)

DigitVal(c) == IndexIn(c, DigitChars) - 1

\* the class \s (WhiteSpace and LineTerminator), as far as the alphabet goes
IsWhiteSpace(c) == c \in {" ", TAB, LF, NBSP}

\* String.prototype.toUpperCase on one character (Unicode simple mapping)
toUpperCaseChar(c) ==
    IF IsIn(c, LowerAZ) THEN UpperAZ[IndexIn(c, LowerAZ)]
    ELSE IF c \in {SMALL_MU, MICRO_SIGN} THEN CAPITAL_MU
    ELSE IF c = LONG_S THEN "S"
    ELSE IF c = DOTLESS_I THEN "I"
    ELSE c

\* String.prototype.toLowerCase on one character
toLowerCaseChar(c) ==
    IF IsIn(c, UpperAZ) THEN LowerAZ[IndexIn(c, UpperAZ)]
    ELSE IF c = CAPITAL_MU THEN SMALL_MU
    ELSE c

\* a lower-casing that leaves every character as it is
toLowerCase_Identity(s) == s

\* String.prototype.toLowerCase
toLowerCase(s) == [i \in 1..Len(s) |-> toLowerCaseChar(s[i])]

\* Canonicalize of a RegExp with the i flag and without the u flag: the
\* upper-case mapping, except that a non-ASCII character never folds to ASCII
Canonicalize(c) ==
    LET u == toUpperCaseChar(c)
    IN  IF c \in NonAscii /\ u \notin NonAscii THEN c ELSE u

\* a literal alternative matched against the whole of t under the i flag
MatchesLiteral(t, lit) ==
    /\ Len(t) = Len(lit)
    /\ \A i \in 1..Len(lit) : Canonicalize(t[i]) = Canonicalize(lit[i])

\* where a greedy \d+ started at i stops: the first position at or after i
\* that holds no digit (Len(s) + 1 when the digits run to the end)
SkipDigits(s, i) ==
    LET stops == {j \in i..Len(s) : ~IsDigit(s[j])}
    IN  IF stops = {} THEN Len(s) + 1
        ELSE CHOOSE j \in stops : \A k \in stops : j <= k

\* where a greedy \s* started at i stops
SkipSpace(s, i) ==
    LET stops == {j \in i..Len(s) : ~IsWhiteSpace(s[j])}
    IN  IF stops = {} THEN Len(s) + 1
        ELSE CHOOSE j \in stops : \A k \in stops : j <= k

\* (\d+(?:\.\d+)?)\s*(alt1|alt2|...)$ with the i flag, matched from position
\* p of s.  The classes \d, \. and \s and the first letters of the
\* alternatives are pairwise disjoint, so the greedy split is the only one
\* backtracking could find.
RegexMatchAt(s, p, alts) ==
    LET i    == SkipDigits(s, p)
        f    == IF i <= Len(s) /\ s[i] = "." THEN SkipDigits(s, i + 1) ELSE i
        j    == IF f > i + 1 THEN f ELSE i
        k    == SkipSpace(s, j)
        unit == SubSeq(s, k, Len(s))
    IN  IF i > p /\ \E a \in alts : MatchesLiteral(unit, a)
        THEN [matched |-> TRUE, amount |-> SubSeq(s, p, j - 1), unit |-> unit]
        ELSE [matched |-> FALSE, amount |-> <<>>, unit |-> <<>>]

\* the same pattern without the ^ anchor: the leftmost match wins
RegexMatch_Unanchored(s, alts) ==
    LET starts == {p \in 1..Len(s) : RegexMatchAt(s, p, alts).matched}
    IN  IF starts = {} THEN RegexMatchAt(s, 1, alts)
        ELSE RegexMatchAt(s, CHOOSE p \in starts : \A q \in starts : p <= q, alts)

\* /^(\d+(?:\.\d+)?)\s*(alt1|alt2|...)$/i applied to s
RegexMatch(s, alts) == RegexMatchAt(s, 1, alts)

GasAlternatives == { <<"T", "G", "a", "s">>, <<"G", "G", "a", "s">>,
                     <<"G", "a", "s">> }

NearAlternatives ==
    { <<"N", "E", "A", "R">>,
      <<"m", "N", "E", "A", "R">>,
      <<"m", "i", "l", "l", "i", "N", "E", "A", "R">>,
      <<SMALL_MU, "N", "E", "A", "R">>,
      <<"m", "i", "c", "r", "o", "N", "E", "A", "R">>,
      <<"y", "o", "c", "t", "o", "N", "E", "A", "R">>,
      <<"y", "o", "c", "t", "o">> }

\* parseFloat on a string of the shape digits or digits.digits: the nearest
\* double to the decimal value (V8 rounds correctly at any length)
parseFloat(amount) ==
    LET i  == SkipDigits(amount, 1)
        ip == [n \in 1..(i - 1) |-> DigitVal(amount[n])]
        fp == [n \in 1..(Len(amount) - i) |-> DigitVal(amount[i + n])]
        k  == Len(fp)
        N  == FromDigits(ip \o fp)
        L  == 60 + 4 * k
        Q  == DivPow10(Shl(N, L), k)
    IN  IF k = 0 THEN RoundToDouble(N, 0, FALSE)
        ELSE RoundToDouble(Q.q, 0 - L, Q.r # 0)

(***************************************************************************)
(* JavaScript values handed to the schemas.  A bigint is a sign and a      *)
(* magnitude; a string is its characters; "number" stands for any value    *)
(* that is neither a string nor a bigint.                                  *)
(***************************************************************************)
Str(chars) == [type |-> "string", str |-> chars]

Big(neg, mag) == [type |-> "bigint", neg |-> neg /\ mag # <<>>, mag |-> mag]

NumberValue == [type |-> "number"]

\* a < b on bigints
BigLt(a, b) == IF a.neg
               THEN (IF b.neg THEN Cmp(a.mag, b.mag) = 1 ELSE TRUE)
               ELSE (IF b.neg THEN FALSE ELSE Cmp(a.mag, b.mag) = -1)

\* 10 ** n evaluated on doubles: the double nearest to 10^n
TenPow(n) == RoundToDouble(Pow10(n), 0, FALSE)

\* the two unit tables as the module creates them
InitialUnits ==
    [GAS_UNITS  |-> [TGAS |-> BigInt(TenPow(12)).val,
                     GGAS |-> BigInt(TenPow(9)).val],
     NEAR_UNITS |-> [NEAR       |-> BigInt(TenPow(24)).val,
                     MILLI_NEAR |-> BigInt(TenPow(21)).val,
                     MICRO_NEAR |-> BigInt(TenPow(18)).val]]

\* the tables are objects of the module, read whenever an operation runs
VARIABLE units

GAS_UNITS == units.GAS_UNITS

NEAR_UNITS == units.NEAR_UNITS

\* the gas threshold off by one
GasWarnBelow_OffByOne == Big(FALSE, FromInt(299))

GasWarnBelow == Big(FALSE, FromInt(300))

NearWarnBelow == Big(FALSE, BigInt(TenPow(20)).val)

(***************************************************************************)
(* Issues and warnings.                                                    *)
(***************************************************************************)
InvalidGasFormat ==
    "Invalid gas format. Use format like \"25.5 TGas\", \"300 GGas\", or \"1000 Gas\""

UnknownGasUnit == "Unknown gas unit. Supported: TGas, GGas, Gas"

InvalidNearFormat ==
    "Invalid NEAR format. Use format like \"0.01 NEAR\", \"500 mNEAR\", \"1000 μNEAR\", or \"100 yocto\""

UnknownNearUnit ==
    "Unknown NEAR unit. Supported: NEAR, mNEAR/milliNEAR, μNEAR/microNEAR, yoctoNEAR/yocto"

Issue(code, message) == [path |-> <<>>, code |-> code, message |-> message]

\* console.warn of the gas or the NEAR message, which interpolates the value
Warning(kind, value) == [kind |-> kind, value |-> value]

\* what a transform callback did: returned a value, added an issue and
\* returned z.NEVER, or let an exception escape
Returned(value, warnings) ==
    [kind |-> "return", value |-> value, issues |-> <<>>,
     warnings |-> warnings, exception |-> "none"]

Never(message) ==
    [kind |-> "never", value |-> Big(FALSE, <<>>),
     issues |-> <<Issue("custom", message)>>,
     warnings |-> <<>>, exception |-> "none"]

Threw(name) ==
    [kind |-> "throw", value |-> Big(FALSE, <<>>), issues |-> <<>>,
     warnings |-> <<>>, exception |-> name]

\* the same, with the small-value check of the bigint path applied as well
ReturnFloor_Warns(x) ==
    LET b == BigInt(Math_floor(x))
    IN  IF b.ok
        THEN Returned(Big(FALSE, b.val),
                      IF BigLt(Big(FALSE, b.val), GasWarnBelow)
                      THEN <<Warning("gas", Big(FALSE, b.val))>> ELSE <<>>)
        ELSE Threw("RangeError")

\* BigInt(Math.floor(x)) returned from the callback
ReturnFloor(x) == LET b == BigInt(Math_floor(x))
                  IN  IF b.ok THEN Returned(Big(FALSE, b.val), <<>>)
                      ELSE Threw("RangeError")

(***************************************************************************)
(* The transform callbacks of the two schemas.                             *)
(***************************************************************************)
\* the string branch of the gas callback
gasFromString(value) ==
    LET match == RegexMatch(value.str, GasAlternatives)
    IN  IF ~match.matched THEN Never(InvalidGasFormat)
        ELSE LET numAmount == parseFloat(match.amount)
                 unit      == toLowerCase(match.unit)
             IN  CASE unit = <<"t", "g", "a", "s">> ->
                        ReturnFloor(Times(numAmount, Number(GAS_UNITS.TGAS)))
                   [] unit = <<"g", "g", "a", "s">> ->
                        ReturnFloor(Times(numAmount, Number(GAS_UNITS.GGAS)))
                   [] unit = <<"g", "a", "s">> ->
                        ReturnFloor(numAmount)
                   [] OTHER -> Never(UnknownGasUnit)

\* the bigint branch read as an amount of TGas
gasFromBigInt_Scaled(value) ==
    Returned(Big(value.neg, Mul(value.mag, GAS_UNITS.TGAS)),
             IF BigLt(value, GasWarnBelow)
             THEN <<Warning("gas", value)>> ELSE <<>>)

\* the bigint branch of the gas callback: warn if suspiciously small
gasFromBigInt(value) ==
    Returned(value, IF BigLt(value, GasWarnBelow)
                    THEN <<Warning("gas", value)>> ELSE <<>>)

gasTransform(value) ==
    IF value.type = "string" THEN gasFromString(value) ELSE gasFromBigInt(value)

\* the string branch of the NEAR callback
nearFromString(value) ==
    LET match == RegexMatch(value.str, NearAlternatives)
    IN  IF ~match.matched THEN Never(InvalidNearFormat)
        ELSE LET numAmount == parseFloat(match.amount)
                 unit      == toLowerCase(match.unit)
             IN  CASE unit = <<"n", "e", "a", "r">> ->
                        ReturnFloor(Times(numAmount, Number(NEAR_UNITS.NEAR)))
                   [] unit \in { <<"m", "n", "e", "a", "r">>,
                                 <<"m", "i", "l", "l", "i", "n", "e", "a", "r">> } ->
                        ReturnFloor(Times(numAmount, Number(NEAR_UNITS.MILLI_NEAR)))
                   [] unit \in { <<SMALL_MU, "n", "e", "a", "r">>,
                                 <<"m", "i", "c", "r", "o", "n", "e", "a", "r">> } ->
                        ReturnFloor(Times(numAmount, Number(NEAR_UNITS.MICRO_NEAR)))
                   [] unit \in { <<"y", "o", "c", "t", "o", "n", "e", "a", "r">>,
                                 <<"y", "o", "c", "t", "o">> } ->
                        ReturnFloor(numAmount)
                   [] OTHER -> Never(UnknownNearUnit)

\* the bigint branch of the NEAR callback without its warning
nearFromBigInt_Silent(value) == Returned(value, <<>>)

\* the bigint branch of the NEAR callback: warn if suspiciously small
nearFromBigInt(value) ==
    Returned(value, IF BigLt(value, NearWarnBelow)
                    THEN <<Warning("near", value)>> ELSE <<>>)

nearTransform(value) ==
    IF value.type = "string" THEN nearFromString(value) ELSE nearFromBigInt(value)

(***************************************************************************)
(* The zod schema combinators (zod 3).  A schema maps a value to a parse    *)
(* result: status "valid", "dirty" (issues recorded, value kept) or         *)
(* "aborted", or an exception that escaped a callback.                      *)
(***************************************************************************)
ParseResult(status, value, issues, warnings, exception) ==
    [status |-> status, value |-> value, issues |-> issues,
     warnings |-> warnings, exception |-> exception]

\* z.string().regex(re): the type check aborts, a failed regex makes dirty
ZodStringRegex(value, alts) ==
    IF value.type # "string"
    THEN ParseResult("aborted", value,
                     <<Issue("invalid_type", "Expected string")>>, <<>>, "none")
    ELSE IF RegexMatch(value.str, alts).matched
    THEN ParseResult("valid", value, <<>>, <<>>, "none")
    ELSE ParseResult("dirty", value,
                     <<Issue("invalid_string", "Invalid")>>, <<>>, "none")

\* z.bigint()
ZodBigInt(value) ==
    IF value.type = "bigint"
    THEN ParseResult("valid", value, <<>>, <<>>, "none")
    ELSE ParseResult("aborted", value,
                     <<Issue("invalid_type", "Expected bigint")>>, <<>>, "none")

\* z.union([a, b]): the first valid option, else the first dirty one with
\* its issues, else one invalid_union issue
ZodUnion(a, b) ==
    IF a.status = "valid" THEN a
    ELSE IF b.status = "valid" THEN b
    ELSE IF a.status = "dirty" THEN a
    ELSE IF b.status = "dirty" THEN b
    ELSE ParseResult("aborted", a.value,
                     <<Issue("invalid_union", "Invalid input")>>, <<>>, "none")

\* schema.transform(f), r being what f does on the inner value: f runs only
\* on a valid inner result; an issue added by f makes the result dirty, an
\* exception of f escapes
ZodEffects(base, r) ==
    IF base.status # "valid" THEN base
    ELSE     CASE r.kind = "return" ->
                    ParseResult("valid", r.value, <<>>, r.warnings, "none")
               [] r.kind = "never" ->
                    ParseResult("dirty", r.value, r.issues, r.warnings, "none")
               [] OTHER ->
                    ParseResult("aborted", r.value, <<>>, r.warnings, r.exception)

gasSchema(value) ==
    ZodEffects(ZodUnion(ZodStringRegex(value, GasAlternatives), ZodBigInt(value)),
               gasTransform(value))

nearSchema(value) ==
    ZodEffects(ZodUnion(ZodStringRegex(value, NearAlternatives), ZodBigInt(value)),
               nearTransform(value))

AtPath(key, issues) == [i \in 1..Len(issues) |-> [issues[i] EXCEPT !.path = <<key>>]]

\* the object schema with the status of attachedDeposit left out of the verdict
ZodObject_GasOnly(g, d) ==
    IF g.exception # "none"
    THEN ParseResult("aborted", <<>>, <<>>, g.warnings, g.exception)
    ELSE ParseResult(IF g.status = "valid" THEN "valid" ELSE "aborted",
                     [gasLimit |-> g.value, attachedDeposit |-> d.value],
                     AtPath("gasLimit", g.issues)
                         \o AtPath("attachedDeposit", d.issues),
                     g.warnings \o d.warnings, "none")

\* z.object({gasLimit, attachedDeposit}), g and d being the results of the
\* two keys: every key is parsed, in shape order, and the issues are
\* gathered; an exception stops the walk
ZodObject(g, d) ==
    IF g.exception # "none"
    THEN ParseResult("aborted", <<>>, <<>>, g.warnings, g.exception)
    ELSE IF d.exception # "none"
    THEN ParseResult("aborted", <<>>, <<>>, g.warnings \o d.warnings,
                     d.exception)
    ELSE ParseResult(IF g.status = "valid" /\ d.status = "valid"
                     THEN "valid" ELSE "aborted",
                     [gasLimit |-> g.value, attachedDeposit |-> d.value],
                     AtPath("gasLimit", g.issues)
                         \o AtPath("attachedDeposit", d.issues),
                     g.warnings \o d.warnings, "none")

callFunctionSchema(params) ==
    ZodObject(gasSchema(params.gasLimit), nearSchema(params.attachedDeposit))

\* schema.safeParse(data) in the place of parse: failures come back as values
Parse_Safe(result) ==
    IF result.exception # "none"
    THEN [completion |-> "throw", error |-> result.exception,
          value |-> <<>>, issues |-> <<>>, warnings |-> result.warnings]
    ELSE IF result.status = "valid"
    THEN [completion |-> "return", error |-> "none",
          value |-> result.value, issues |-> <<>>, warnings |-> result.warnings]
    ELSE [completion |-> "return", error |-> "ZodError",
          value |-> <<>>, issues |-> result.issues, warnings |-> result.warnings]

\* schema.parse(data): the value, or a thrown ZodError carrying the issues,
\* or the exception that escaped
Parse(result) ==
    IF result.exception # "none"
    THEN [completion |-> "throw", error |-> result.exception,
          value |-> <<>>, issues |-> <<>>, warnings |-> result.warnings]
    ELSE IF result.status = "valid"
    THEN [completion |-> "return", error |-> "none",
          value |-> result.value, issues |-> <<>>, warnings |-> result.warnings]
    ELSE [completion |-> "throw", error |-> "ZodError",
          value |-> <<>>, issues |-> result.issues, warnings |-> result.warnings]

(***************************************************************************)
(* The helper constructors and the utilities.  A call either returns a     *)
(* value or throws.  A number is a sign and a double; the text that a       *)
(* template literal makes of a number is kept as the number itself, the     *)
(* rendering of a double being one-to-one.                                  *)
(***************************************************************************)
Num(neg, x) == [type |-> "number", neg |-> neg, num |-> Canonical(x)]

Template(value, suffix) == [type |-> "string", value |-> value, suffix |-> suffix]

Value(v) == [completion |-> "return", error |-> "none", value |-> v,
             issues |-> <<>>, warnings |-> <<>>]

Throw(name) == [completion |-> "throw", error |-> name, value |-> <<>>,
                issues |-> <<>>, warnings |-> <<>>]

\* BigInt(Math.floor(x)) as the value of a call, x >= 0
FloorToBigInt(x) == LET b == BigInt(Math_floor(x))
                    IN  IF b.ok THEN Value(Big(FALSE, b.val))
                        ELSE Throw("RangeError")

\* Number(amount) / Number(unit) for a bigint amount and a unit > 0
Quotient(amount, unit) ==
    Num(amount.neg, DividedBy(Number(amount.mag), Number(unit)))

\* n >= 1 for a signed number
AtLeastOne(n) == ~n.neg /\ GeOne(n.num)

\* the TGas constructor scaling by the GGas unit
gas_tgas_Giga(amount) == FloorToBigInt(Times(amount.num, Number(GAS_UNITS.GGAS)))

gas_tgas(amount) == FloorToBigInt(Times(amount.num, Number(GAS_UNITS.TGAS)))

gas_ggas(amount) == FloorToBigInt(Times(amount.num, Number(GAS_UNITS.GGAS)))

gas_raw(amount) == Value(amount)

near_near(amount) == FloorToBigInt(Times(amount.num, Number(NEAR_UNITS.NEAR)))

near_milli(amount) ==
    FloorToBigInt(Times(amount.num, Number(NEAR_UNITS.MILLI_NEAR)))

near_micro(amount) ==
    FloorToBigInt(Times(amount.num, Number(NEAR_UNITS.MICRO_NEAR)))

near_yocto(amount) == Value(amount)

gasUtils_toTGas(gasAmount) == Value(Quotient(gasAmount, GAS_UNITS.TGAS))

gasUtils_toGGas(gasAmount) == Value(Quotient(gasAmount, GAS_UNITS.GGAS))

gasUtils_fromTGas(amount) == gas_tgas(amount)

gasUtils_fromGGas(amount) == gas_ggas(amount)

\* the first of TGas, GGas in which the amount is at least 1, else raw
FormatGas(gasAmount, tgas, ggas) ==
    IF AtLeastOne(tgas) THEN Value(Template(tgas, " TGas"))
    ELSE IF AtLeastOne(ggas) THEN Value(Template(ggas, " GGas"))
    ELSE Value(Template(gasAmount, " Gas"))

gasUtils_format(gasAmount) ==
    FormatGas(gasAmount, Quotient(gasAmount, GAS_UNITS.TGAS),
              Quotient(gasAmount, GAS_UNITS.GGAS))

nearUtils_toNEAR(yoctoAmount) == Value(Quotient(yoctoAmount, NEAR_UNITS.NEAR))

nearUtils_toMilliNEAR(yoctoAmount) ==
    Value(Quotient(yoctoAmount, NEAR_UNITS.MILLI_NEAR))

nearUtils_toMicroNEAR(yoctoAmount) ==
    Value(Quotient(yoctoAmount, NEAR_UNITS.MICRO_NEAR))

nearUtils_fromNEAR(amount) == near_near(amount)

nearUtils_fromMilliNEAR(amount) == near_milli(amount)

nearUtils_fromMicroNEAR(amount) == near_micro(amount)

\* the first of NEAR, mNEAR, micro-NEAR in which the amount is at least 1,
\* else raw
FormatNear(yoctoAmount, nearVal, milli, micro) ==
    IF AtLeastOne(nearVal) THEN Value(Template(nearVal, " NEAR"))
    ELSE IF AtLeastOne(milli) THEN Value(Template(milli, " mNEAR"))
    ELSE IF AtLeastOne(micro)
    THEN Value(Template(micro, " μNEAR"))
    ELSE Value(Template(yoctoAmount, " yocto"))

nearUtils_format(yoctoAmount) ==
    FormatNear(yoctoAmount, Quotient(yoctoAmount, NEAR_UNITS.NEAR),
               Quotient(yoctoAmount, NEAR_UNITS.MILLI_NEAR),
               Quotient(yoctoAmount, NEAR_UNITS.MICRO_NEAR))

\* the members of the exported objects by name
gas(member, amount) ==
    CASE member = "tgas" -> gas_tgas(amount)
      [] member = "ggas" -> gas_ggas(amount)
      [] member = "raw"  -> gas_raw(amount)

near(member, amount) ==
    CASE member = "near"  -> near_near(amount)
      [] member = "milli" -> near_milli(amount)
      [] member = "micro" -> near_micro(amount)
      [] member = "yocto" -> near_yocto(amount)

gasUtils(member, amount) ==
    CASE member = "toTGas"   -> gasUtils_toTGas(amount)
      [] member = "toGGas"   -> gasUtils_toGGas(amount)
      [] member = "fromTGas" -> gasUtils_fromTGas(amount)
      [] member = "fromGGas" -> gasUtils_fromGGas(amount)
      [] member = "format"   -> gasUtils_format(amount)

nearUtils(member, amount) ==
    CASE member = "toNEAR"        -> nearUtils_toNEAR(amount)
      [] member = "toMilliNEAR"   -> nearUtils_toMilliNEAR(amount)
      [] member = "toMicroNEAR"   -> nearUtils_toMicroNEAR(amount)
      [] member = "fromNEAR"      -> nearUtils_fromNEAR(amount)
      [] member = "fromMilliNEAR" -> nearUtils_fromMilliNEAR(amount)
      [] member = "fromMicroNEAR" -> nearUtils_fromMicroNEAR(amount)
      [] member = "format"        -> nearUtils_format(amount)

(***************************************************************************)
(* The variant of the module without template-literal input types and      *)
(* branded outputs.  It is a module of its own: it has its own unit tables, *)
(* patterns, callbacks and utilities, and no helper constructors.           *)
(***************************************************************************)
plain_GAS_UNITS == [TGAS |-> BigInt(TenPow(12)).val, GGAS |-> BigInt(TenPow(9)).val]

plain_NEAR_UNITS == [NEAR       |-> BigInt(TenPow(24)).val,
                     MILLI_NEAR |-> BigInt(TenPow(21)).val,
                     MICRO_NEAR |-> BigInt(TenPow(18)).val]

plain_GasAlternatives == { <<"T", "G", "a", "s">>, <<"G", "G", "a", "s">>,
                           <<"G", "a", "s">> }

plain_NearAlternatives ==
    { <<"N", "E", "A", "R">>,
      <<"m", "N", "E", "A", "R">>,
      <<"m", "i", "l", "l", "i", "N", "E", "A", "R">>,
      <<SMALL_MU, "N", "E", "A", "R">>,
      <<"m", "i", "c", "r", "o", "N", "E", "A", "R">>,
      <<"y", "o", "c", "t", "o", "N", "E", "A", "R">>,
      <<"y", "o", "c", "t", "o">> }

\* the switch of the gas callback on the lower-cased unit
plain_gasSwitch(numAmount, unit) ==
    CASE unit = <<"t", "g", "a", "s">> ->
            ReturnFloor(Times(numAmount, Number(plain_GAS_UNITS.TGAS)))
      [] unit = <<"g", "g", "a", "s">> ->
            ReturnFloor(Times(numAmount, Number(plain_GAS_UNITS.GGAS)))
      [] unit = <<"g", "a", "s">> -> ReturnFloor(numAmount)
      [] OTHER -> Never("Unknown gas unit. Supported: TGas, GGas, Gas")

plain_gasMatched(match) ==
    IF ~match.matched
    THEN Never("Invalid gas format. Use format like \"25.5 TGas\", \"300 GGas\", or \"1000 Gas\"")
    ELSE plain_gasSwitch(parseFloat(match.amount), toLowerCase(match.unit))

plain_gasTransform(value) ==
    IF value.type = "string"
    THEN plain_gasMatched(RegexMatch(value.str, plain_GasAlternatives))
    ELSE Returned(value, IF BigLt(value, Big(FALSE, FromInt(300)))
                         THEN <<Warning("gas", value)>> ELSE <<>>)

\* the switch of the NEAR callback on the lower-cased unit
plain_nearSwitch(numAmount, unit) ==
    CASE unit = <<"n", "e", "a", "r">> ->
            ReturnFloor(Times(numAmount, Number(plain_NEAR_UNITS.NEAR)))
      [] unit \in { <<"m", "n", "e", "a", "r">>,
                    <<"m", "i", "l", "l", "i", "n", "e", "a", "r">> } ->
            ReturnFloor(Times(numAmount, Number(plain_NEAR_UNITS.MILLI_NEAR)))
      [] unit \in { <<SMALL_MU, "n", "e", "a", "r">>,
                    <<"m", "i", "c", "r", "o", "n", "e", "a", "r">> } ->
            ReturnFloor(Times(numAmount, Number(plain_NEAR_UNITS.MICRO_NEAR)))
      [] unit \in { <<"y", "o", "c", "t", "o", "n", "e", "a", "r">>,
                    <<"y", "o", "c", "t", "o">> } ->
            ReturnFloor(numAmount)
      [] OTHER -> Never("Unknown NEAR unit. Supported: NEAR, mNEAR/milliNEAR, μNEAR/microNEAR, yoctoNEAR/yocto")

plain_nearMatched(match) ==
    IF ~match.matched
    THEN Never("Invalid NEAR format. Use format like \"0.01 NEAR\", \"500 mNEAR\", \"1000 μNEAR\", or \"100 yocto\"")
    ELSE plain_nearSwitch(parseFloat(match.amount), toLowerCase(match.unit))

plain_nearTransform(value) ==
    IF value.type = "string"
    THEN plain_nearMatched(RegexMatch(value.str, plain_NearAlternatives))
    ELSE Returned(value, IF BigLt(value, Big(FALSE, BigInt(TenPow(20)).val))
                         THEN <<Warning("near", value)>> ELSE <<>>)

plain_gasSchema(value) ==
    ZodEffects(ZodUnion(ZodStringRegex(value, plain_GasAlternatives),
                        ZodBigInt(value)),
               plain_gasTransform(value))

plain_nearSchema(value) ==
    ZodEffects(ZodUnion(ZodStringRegex(value, plain_NearAlternatives),
                        ZodBigInt(value)),
               plain_nearTransform(value))

plain_callFunctionSchema(params) ==
    ZodObject(plain_gasSchema(params.gasLimit),
              plain_nearSchema(params.attachedDeposit))

plain_callFunction(params) == Parse(plain_callFunctionSchema(params))

\* Number(amount) / Number(unit) for a bigint amount
plain_Quotient(amount, unit) ==
    Num(amount.neg, DividedBy(Number(amount.mag), Number(unit)))

plain_gasUtils(member, amount) ==
    CASE member = "toTGas" -> Value(plain_Quotient(amount, plain_GAS_UNITS.TGAS))
      [] member = "toGGas" -> Value(plain_Quotient(amount, plain_GAS_UNITS.GGAS))
      [] member = "fromTGas" ->
            FloorToBigInt(Times(amount.num, Number(plain_GAS_UNITS.TGAS)))
      [] member = "fromGGas" ->
            FloorToBigInt(Times(amount.num, Number(plain_GAS_UNITS.GGAS)))
      [] member = "format" ->
            FormatGas(amount, plain_Quotient(amount, plain_GAS_UNITS.TGAS),
                      plain_Quotient(amount, plain_GAS_UNITS.GGAS))

plain_nearUtils(member, amount) ==
    CASE member = "toNEAR" -> Value(plain_Quotient(amount, plain_NEAR_UNITS.NEAR))
      [] member = "toMilliNEAR" ->
            Value(plain_Quotient(amount, plain_NEAR_UNITS.MILLI_NEAR))
      [] member = "toMicroNEAR" ->
            Value(plain_Quotient(amount, plain_NEAR_UNITS.MICRO_NEAR))
      [] member = "fromNEAR" ->
            FloorToBigInt(Times(amount.num, Number(plain_NEAR_UNITS.NEAR)))
      [] member = "fromMilliNEAR" ->
            FloorToBigInt(Times(amount.num, Number(plain_NEAR_UNITS.MILLI_NEAR)))
      [] member = "fromMicroNEAR" ->
            FloorToBigInt(Times(amount.num, Number(plain_NEAR_UNITS.MICRO_NEAR)))
      [] member = "format" ->
            FormatNear(amount, plain_Quotient(amount, plain_NEAR_UNITS.NEAR),
                       plain_Quotient(amount, plain_NEAR_UNITS.MILLI_NEAR),
                       plain_Quotient(amount, plain_NEAR_UNITS.MICRO_NEAR))

(***************************************************************************)
(* Bounds of the explored inputs.                                          *)
(***************************************************************************)
MaxIntDigits == 1

MaxFracDigits == 1

MaxSpaces == 2

MaxConsole == 2

(***************************************************************************)
(* Inputs.  Numerals are generated up to the bounds from a few digits and  *)
(* joined by the numerals the documentation and the tests use, one beyond   *)
(* 2^53 and one beyond the largest double.                                 *)
(***************************************************************************)
GenDigits == {"0", "1", "5"}

DigitStrings(max) == UNION {[1..n -> GenDigits] : n \in 1..max}

GenNumerals ==
    {ip \o fp : ip \in DigitStrings(MaxIntDigits),
                fp \in {<<>>} \cup {<<".">> \o f : f \in DigitStrings(MaxFracDigits)}}

HugeNumeral == [i \in 1..310 |-> IF i = 1 THEN "1" ELSE "0"]

SpecialNumerals ==
    { <<"2", "5">>, <<"2", "5", ".", "5">>, <<"5", "0", "0">>,
      <<"5", "0", "0", ".", "7">>, <<"1", "0", "0", "0">>,
      <<"0", ".", "0", "1">>, <<"0", ".", "2", "9">>, <<"0", "0", "7">>,
      <<"9", "0", "0", "7", "1", "9", "9", "2", "5", "4", "7", "4", "0", "9", "9", "3">>,
      HugeNumeral }

Numerals == GenNumerals \cup SpecialNumerals

Spaces(n) == [i \in 1..n |-> " "]

Separators == {Spaces(n) : n \in 0..MaxSpaces}
                \cup { <<TAB>>, <<NBSP>>, <<" ", LF>>, <<"_">> }

GasSpellings ==
    { <<"T", "G", "a", "s">>, <<"t", "g", "a", "s">>, <<"T", "G", "A", "S">>,
      <<"G", "G", "a", "s">>, <<"g", "g", "a", "s">>,
      <<"G", "a", "s">>, <<"G", "A", "S">>, <<"G", "a", LONG_S>>,
      <<"X", "G", "a", "s">>, <<"N", "E", "A", "R">>, <<>> }

NearSpellings ==
    { <<"N", "E", "A", "R">>, <<"n", "e", "a", "r">>,
      <<"m", "N", "E", "A", "R">>, <<"M", "N", "E", "A", "R">>,
      <<"m", "i", "l", "l", "i", "N", "E", "A", "R">>,
      <<"m", DOTLESS_I, "l", "l", DOTLESS_I, "N", "E", "A", "R">>,
      <<SMALL_MU, "N", "E", "A", "R">>, <<CAPITAL_MU, "N", "E", "A", "R">>,
      <<MICRO_SIGN, "N", "E", "A", "R">>, <<MICRO_SIGN, "n", "e", "a", "r">>,
      <<"m", "i", "c", "r", "o", "N", "E", "A", "R">>,
      <<"y", "o", "c", "t", "o", "N", "E", "A", "R">>,
      <<"y", "o", "c", "t", "o">>, <<"Y", "O", "C", "T", "O">>,
      <<"E", "T", "H">>, <<"T", "G", "a", "s">>, <<>> }

\* strings that break the number or add text around a well-formed input
Malformed(unit) ==
    { <<>>, <<"i", "n", "v", "a", "l", "i", "d", " ">> \o unit }
      \cup { lead \o num \o <<" ">> \o unit \o trail :
               lead  \in { <<>>, <<" ">>, <<"-">>, <<"+">> },
               num   \in { <<"1">>, <<"1", "e", "3">>, <<"1", ",", "0", "0", "0">>,
                           <<".", "5">>, <<"5", ".">>, <<"1", ".", "2", ".", "3">> },
               trail \in { <<>>, <<" ">>, <<LF>> } }

StringInputs(suffixes, spellings) ==
    {n \o <<" ">> \o u : n \in Numerals, u \in suffixes}
      \cup {n \o sep \o u : n \in { <<"1">>, <<"2", "5", ".", "5">> },
                            sep \in Separators, u \in spellings}
      \cup UNION {Malformed(u) : u \in suffixes}

GasStrings == StringInputs(GasAlternatives, GasSpellings)

NearStrings == StringInputs(NearAlternatives, NearSpellings)

Nines(n) == FromDigits([i \in 1..n |-> 9])

Pow2Big(n) == Shl(<<1>>, n)

BigIntInputs ==
    { Big(TRUE, FromInt(1)), Big(TRUE, Pow10(24)), Big(FALSE, <<>>),
      Big(FALSE, FromInt(10)), Big(FALSE, FromInt(299)), Big(FALSE, FromInt(300)),
      Big(FALSE, FromInt(1000)), Big(FALSE, Mul(FromInt(25), Pow10(12))),
      Big(FALSE, Nines(20)), Big(FALSE, Pow10(20)), Big(FALSE, Pow10(24)),
      Big(FALSE, NEAR_UNITS.NEAR) }

GasInputs == {Str(s) : s \in GasStrings} \cup BigIntInputs \cup {NumberValue}

NearInputs == {Str(s) : s \in NearStrings} \cup BigIntInputs \cup {NumberValue}

CallGasInputs ==
    { Str(<<"2", "5", ".", "5", " ", "T", "G", "a", "s">>),
      Str(<<"1", "0", " ", "G", "a", "s">>), Str(<<"2", "5">>),
      Str(<<"2", "5", " ", "X", "G", "a", "s">>),
      Str(HugeNumeral \o <<"G", "a", "s">>),
      Big(FALSE, FromInt(10)), Big(FALSE, Mul(FromInt(30), Pow10(12))),
      Big(TRUE, FromInt(1)), NumberValue }

CallNearInputs ==
    { Str(<<"0", ".", "0", "1", " ", "N", "E", "A", "R">>),
      Str(<<"5", "0", "0", " ", "m", "N", "E", "A", "R">>),
      Str(<<"1", " ", "y", "o", "c", "t", "o">>),
      Str(<<"1", " ", "E", "T", "H">>),
      Str(<<"1", " ", MICRO_SIGN, "N", "E", "A", "R">>),
      Str(HugeNumeral \o <<"N", "E", "A", "R">>),
      Big(FALSE, FromInt(1000)), Big(FALSE, Pow10(24)), NumberValue }

\* amounts around the thresholds of format, and multiples of the units
UtilBigInts ==
    BigIntInputs
      \cup { Big(FALSE, Nines(9)), Big(FALSE, Pow10(9)),
             Big(FALSE, Nines(12)), Big(FALSE, Pow10(12)),
             Big(FALSE, Nines(18)), Big(FALSE, Pow10(18)),
             Big(FALSE, Nines(21)), Big(FALSE, Pow10(21)),
             Big(FALSE, Nines(24)), Big(FALSE, MulSmall(Pow10(24), 3)),
             Big(FALSE, MulSmall(Pow10(21), 7)),
             Big(FALSE, Mul(Add(Pow2Big(53), <<1>>), Pow10(12))) }

\* the numbers that the numerals write
NumberInputs == {Num(FALSE, parseFloat(n)) : n \in Numerals}

UtilCalls(object, members, args) ==
    {[op |-> object, member |-> m, arg |-> v] : m \in members, v \in args}

UtilRequests ==
    UtilCalls("gas", {"tgas", "ggas"}, NumberInputs)
      \cup UtilCalls("gas", {"raw"}, UtilBigInts)
      \cup UtilCalls("near", {"near", "milli", "micro"}, NumberInputs)
      \cup UtilCalls("near", {"yocto"}, UtilBigInts)
      \cup UtilCalls("gasUtils", {"fromTGas", "fromGGas"}, NumberInputs)
      \cup UtilCalls("gasUtils", {"toTGas", "toGGas", "format"}, UtilBigInts)
      \cup UtilCalls("nearUtils", {"fromNEAR", "fromMilliNEAR", "fromMicroNEAR"},
                     NumberInputs)
      \cup UtilCalls("nearUtils",
                     {"toNEAR", "toMilliNEAR", "toMicroNEAR", "format"},
                     UtilBigInts)

Requests ==
    {[op |-> "gasSchema.parse", arg |-> v] : v \in GasInputs}
      \cup {[op |-> "nearSchema.parse", arg |-> v] : v \in NearInputs}
      \cup {[op |-> "callFunction",
             arg |-> [gasLimit |-> g, attachedDeposit |-> d]] :
               g \in CallGasInputs, d \in CallNearInputs}
      \cup UtilRequests

\* the calls that may follow a first call
FollowUps ==
    {[op |-> "gasSchema.parse", arg |-> v] :
        v \in {Big(FALSE, FromInt(10)), Big(FALSE, FromInt(300)),
               Str(<<"1", "0", " ", "G", "a", "s">>), Str(<<"2", "5">>)}}
      \cup {[op |-> "nearSchema.parse", arg |-> v] :
        v \in {Big(FALSE, FromInt(1000)), Big(FALSE, Pow10(20)),
               Str(<<"1", " ", "y", "o", "c", "t", "o">>)}}
      \cup {[op |-> "callFunction",
             arg |-> [gasLimit |-> Big(FALSE, FromInt(10)),
                      attachedDeposit |-> Big(FALSE, FromInt(1000))]]}
      \cup UtilCalls("gas", {"tgas"}, {Num(FALSE, parseFloat(<<"2", "5">>))})
      \cup UtilCalls("near", {"yocto"}, {Big(FALSE, FromInt(1000))})
      \cup UtilCalls("gasUtils", {"toTGas", "format"}, {Big(FALSE, Pow10(12))})
      \cup UtilCalls("nearUtils", {"fromNEAR"},
                     {Num(FALSE, parseFloat(<<"1">>))})

(***************************************************************************)
(* The state machine: a caller invokes one operation after another.  The   *)
(* library keeps no state of its own; console counts the lines written by   *)
(* console.warn since the start.                                           *)
(***************************************************************************)
VARIABLES pc, request, response, console, earlier

vars == <<units, pc, request, response, console, earlier>>

NoResponse == [completion |-> "pending", error |-> "none", value |-> <<>>,
               issues |-> <<>>, warnings |-> <<>>]

\* earlier is the caller's note of one earlier call and its outcome
NoCall == [made |-> FALSE]

Init == /\ units = InitialUnits
        /\ pc = "call"
        /\ request \in Requests
        /\ response = NoResponse
        /\ console = 0
        /\ earlier = NoCall

\* the same, with a flag of the module that lets only the first warning out
Complete_WarnOnce(r) ==
    /\ response' = [r EXCEPT !.warnings = IF console > 0 THEN <<>> ELSE @]
    /\ console' = console + (IF console > 0 THEN 0 ELSE Len(r.warnings))
    /\ pc' = "done"
    /\ UNCHANGED <<units, request, earlier>>

\* the operation ends with outcome r, its warnings written to the console
Complete(r) == /\ response' = r
               /\ console' = console + Len(r.warnings)
               /\ pc' = "done"
               /\ UNCHANGED <<units, request, earlier>>

gasSchema_parse == /\ pc = "call"
                   /\ request.op = "gasSchema.parse"
                   /\ Complete(Parse(gasSchema(request.arg)))

nearSchema_parse == /\ pc = "call"
                    /\ request.op = "nearSchema.parse"
                    /\ Complete(Parse(nearSchema(request.arg)))

callFunction == /\ pc = "call"
                /\ request.op = "callFunction"
                /\ Complete(Parse(callFunctionSchema(request.arg)))

gas_call == /\ pc = "call"
            /\ request.op = "gas"
            /\ Complete(gas(request.member, request.arg))

near_call == /\ pc = "call"
             /\ request.op = "near"
             /\ Complete(near(request.member, request.arg))

gasUtils_call == /\ pc = "call"
                 /\ request.op = "gasUtils"
                 /\ Complete(gasUtils(request.member, request.arg))

nearUtils_call == /\ pc = "call"
                  /\ request.op = "nearUtils"
                  /\ Complete(nearUtils(request.member, request.arg))

\* the caller makes its next call, one of FollowUps, and may note the call
\* just made if that call can be made again
Invoke == /\ pc = "done"
          /\ console < MaxConsole
          /\ \E r \in FollowUps : request' = r
          /\ \E note \in BOOLEAN :
                earlier' = IF note /\ request \in FollowUps
                           THEN [made |-> TRUE, request |-> request,
                                 response |-> response]
                           ELSE earlier
          /\ response' = NoResponse
          /\ pc' = "call"
          /\ UNCHANGED <<units, console>>

Next == \/ gasSchema_parse
        \/ nearSchema_parse
        \/ callFunction
        \/ gas_call
        \/ near_call
        \/ gasUtils_call
        \/ nearUtils_call
        \/ Invoke

Spec == Init /\ [][Next]_vars

(***************************************************************************)
(* Properties.                                                             *)
(***************************************************************************)
Done(op) == pc = "done" /\ request.op = op

DoneParse == Done("gasSchema.parse") \/ Done("nearSchema.parse")

ReturnedOk == response.completion = "return"

\* C1: every value returned by gasSchema.parse, nearSchema.parse or
\* callFunction, for a string or a raw bigint input, is an integer >= 0.
C1_ReturnedNonNegative ==
    /\ (DoneParse /\ ReturnedOk) => ~response.value.neg
    /\ (Done("callFunction") /\ ReturnedOk) =>
           /\ ~response.value.gasLimit.neg
           /\ ~response.value.attachedDeposit.neg

\* floor(n * 10^scale) for the decimal numeral n = digits or digits.digits
ExactFloor(numeral, scale) ==
    LET i  == SkipDigits(numeral, 1)
        ds == [n \in 1..(Len(numeral) - (IF i <= Len(numeral) THEN 1 ELSE 0)) |->
                  DigitVal(numeral[IF n < i THEN n ELSE n + 1])]
        k  == IF i <= Len(numeral) THEN Len(numeral) - i ELSE 0
    IN  DivPow10(Mul(FromDigits(ds), Pow10(scale)), k).q

\* the power of ten the specification gives each suffix
TierScale(unit) ==
    LET u == toLowerCase(unit)
    IN  CASE u = <<"t", "g", "a", "s">> -> 12
          [] u = <<"g", "g", "a", "s">> -> 9
          [] u = <<"n", "e", "a", "r">> -> 24
          [] u \in { <<"m", "n", "e", "a", "r">>,
                     <<"m", "i", "l", "l", "i", "n", "e", "a", "r">> } -> 21
          [] u \in { <<SMALL_MU, "n", "e", "a", "r">>,
                     <<"m", "i", "c", "r", "o", "n", "e", "a", "r">> } -> 18
          [] OTHER -> 0

RequestMatch ==
    RegexMatch(request.arg.str,
               IF request.op = "gasSchema.parse" THEN GasAlternatives
               ELSE NearAlternatives)

\* C2: an accepted string "<n> <u>" yields exactly floor(n * s), s the power
\* of ten of the unit u ("1 NEAR" yields 10^24, "500 mNEAR" yields 5 * 10^23).
C2_ExactScaledFloor ==
    (DoneParse /\ request.arg.type = "string" /\ ReturnedOk) =>
        response.value.mag =
            ExactFloor(RequestMatch.amount, TierScale(RequestMatch.unit))

\* C3: callFunction returns a record exactly when both fields are accepted by
\* their parsers, the record then holds the two parsers' results, and
\* otherwise nothing is returned and at least one error is reported.
C3_CallFunctionIsBothParsers ==
    Done("callFunction") =>
        LET g == Parse(gasSchema(request.arg.gasLimit))
            d == Parse(nearSchema(request.arg.attachedDeposit))
        IN  /\ ReturnedOk <=> (g.completion = "return" /\ d.completion = "return")
            /\ ReturnedOk =>
                  /\ response.value.gasLimit = g.value
                  /\ response.value.attachedDeposit = d.value
            /\ ~ReturnedOk =>
                  /\ response.completion = "throw"
                  /\ response.value = <<>>
                  /\ response.error # "none"
                  /\ response.error = "ZodError" => Len(response.issues) >= 1

C3_Witness ==
    /\ Done("callFunction") /\ ReturnedOk
    /\ request.arg.gasLimit.type = "bigint"
    /\ request.arg.attachedDeposit.type = "string"

\* C4: a raw bigint input is accepted and returned unchanged by both
\* parsers, whether or not a warning is emitted for it.
C4_BigIntReturnedUnchanged ==
    (DoneParse /\ request.arg.type = "bigint") =>
        ReturnedOk /\ response.value = request.arg

C4_Witness ==
    /\ Done("nearSchema.parse") /\ request.arg.type = "bigint"
    /\ Len(response.warnings) = 1 /\ response.value = request.arg

\* C5: on the raw bigint path exactly one warning is emitted when the value
\* is below the threshold (300 for gas, 10^20 for NEAR) and none otherwise.
C5_WarnIffBelowThreshold ==
    (DoneParse /\ request.arg.type = "bigint") =>
        LET gasCall == request.op = "gasSchema.parse"
            limit   == IF gasCall THEN Big(FALSE, FromInt(300))
                       ELSE Big(FALSE, Pow10(20))
        IN  response.warnings =
               IF BigLt(request.arg, limit)
               THEN <<Warning(IF gasCall THEN "gas" ELSE "near", request.arg)>>
               ELSE <<>>

C5_Witness ==
    /\ Done("gasSchema.parse") /\ request.arg = Big(FALSE, FromInt(299))
    /\ Len(response.warnings) = 1

\* C6: no warning is emitted for a string input, accepted or rejected,
\* however small the resulting quantity.
C6_NoWarningForStrings ==
    (DoneParse /\ request.arg.type = "string") => response.warnings = <<>>

C6_Witness ==
    /\ Done("gasSchema.parse") /\ request.arg.type = "string" /\ ReturnedOk
    /\ BigLt(response.value, Big(FALSE, FromInt(300)))
    /\ response.warnings = <<>>

AlternativesOf(op) ==
    IF op = "gasSchema.parse" THEN GasAlternatives ELSE NearAlternatives

\* the suffix is a spelling of the unit table, letter case aside
InUnitTable(u) ==
    \E a \in AlternativesOf(request.op) : toLowerCase(u) = toLowerCase(a)

\* the suffix is one the case-insensitive pattern lets through
PassesPattern(u) ==
    \E a \in AlternativesOf(request.op) : MatchesLiteral(u, a)

\* digits, optionally "." and digits, then characters of the class ws, then
\* a suffix of the unit table (or, with asPattern, one the pattern lets
\* through), and nothing else: s[1..j] is the number and s[k+1..] the suffix
HasShape(s, ws, asPattern) ==
    LET D == {n \in 1..Len(s) :
                 s[n] \in {"0", "1", "2", "3", "4", "5", "6", "7", "8", "9"}}
    IN  \E k \in 0..Len(s) :
            /\ IF asPattern THEN PassesPattern(SubSeq(s, k + 1, Len(s)))
               ELSE InUnitTable(SubSeq(s, k + 1, Len(s)))
            /\ \E j \in 1..k :
                   /\ \A n \in (j + 1)..k : s[n] \in ws
                   /\ \/ \A n \in 1..j : n \in D
                      \/ \E p \in 2..(j - 1) :
                             s[p] = "." /\ \A n \in 1..j : n = p \/ n \in D

\* rejected for its shape: a ZodError whose issues are all format issues
RejectedInvalidFormat ==
    /\ response.completion = "throw"
    /\ response.error = "ZodError"
    /\ Len(response.issues) >= 1
    /\ \A n \in 1..Len(response.issues) :
           \/ response.issues[n].code = "invalid_string"
           \/ response.issues[n].message \in {InvalidGasFormat, InvalidNearFormat}

C8_UnknownUnitUnreachable ==
    pc = "done" =>
        \A n \in 1..Len(response.issues) :
            response.issues[n].message \notin {UnknownGasUnit, UnknownNearUnit}

\* C9: whenever a string does not match the kind's shape, the error reported
\* carries the message that names the kind and lists example formats.
C9_FormatErrorNamesKind ==
    (DoneParse /\ request.arg.type = "string" /\ ~RequestMatch.matched) =>
        \E n \in 1..Len(response.issues) :
            response.issues[n].message =
                IF request.op = "gasSchema.parse" THEN InvalidGasFormat
                ELSE InvalidNearFormat

\* an input no parser of the kind accepts: neither a bigint nor a string of
\* the shape with a suffix of the unit table
InvalidInput(v, alts) ==
    ~ \/ v.type = "bigint"
      \/ /\ v.type = "string"
         /\ RegexMatch(v.str, alts).matched
         /\ \E a \in alts : toLowerCase(RegexMatch(v.str, alts).unit) = toLowerCase(a)

InvalidRequest ==
    IF request.op = "callFunction"
    THEN \/ InvalidInput(request.arg.gasLimit, GasAlternatives)
         \/ InvalidInput(request.arg.attachedDeposit, NearAlternatives)
    ELSE /\ request.op \in {"gasSchema.parse", "nearSchema.parse"}
         /\ InvalidInput(request.arg, AlternativesOf(request.op))

\* C10 as stated: for every invalid input the call completes by returning
\* an error result, never by raising an exception.
C10_FailuresAreReturned ==
    (pc = "done" /\ InvalidRequest) => response.completion = "return"

\* C10 amended: for every invalid input the call completes by throwing (a
\* ZodError carrying at least one issue, unless another exception escaped
\* first) and returns no value.
C10_FailuresAreThrown ==
    (pc = "done" /\ InvalidRequest) =>
        /\ response.completion = "throw"
        /\ response.value = <<>>
        /\ response.error \in {"ZodError", "RangeError"}
        /\ response.error = "ZodError" => Len(response.issues) >= 1

C10_Witness ==
    /\ Done("callFunction") /\ InvalidRequest
    /\ response.completion = "throw" /\ response.error = "ZodError"
    /\ Len(response.issues) = 2

\* the first spelling that the unit table gives the tier of a suffix
FirstSpelling(unit) ==
    LET u == toLowerCase(unit)
    IN  CASE u = <<"t", "g", "a", "s">> -> <<"T", "G", "a", "s">>
          [] u = <<"g", "g", "a", "s">> -> <<"G", "G", "a", "s">>
          [] u = <<"g", "a", "s">> -> <<"G", "a", "s">>
          [] u = <<"n", "e", "a", "r">> -> <<"N", "E", "A", "R">>
          [] u \in { <<"m", "n", "e", "a", "r">>,
                     <<"m", "i", "l", "l", "i", "n", "e", "a", "r">> } ->
                <<"m", "N", "E", "A", "R">>
          [] u \in { <<SMALL_MU, "n", "e", "a", "r">>,
                     <<"m", "i", "c", "r", "o", "n", "e", "a", "r">> } ->
                <<SMALL_MU, "N", "E", "A", "R">>
          [] u \in { <<"y", "o", "c", "t", "o", "n", "e", "a", "r">>,
                     <<"y", "o", "c", "t", "o">> } ->
                <<"y", "o", "c", "t", "o">>
          [] OTHER -> unit

\* the outcome of the parser of the request on the string s
ParseOf(op, s) == IF op = "gasSchema.parse" THEN Parse(gasSchema(Str(s)))
                  ELSE Parse(nearSchema(Str(s)))

\* C11: an accepted string yields what its numeric text followed by one
\* space and the first spelling of its tier yields, so that accepted strings
\* with the same numeric text and suffixes of one tier, in whatever letter
\* case, alias or spacing, yield identical results.
C11_SameTierSameResult ==
    (DoneParse /\ request.arg.type = "string" /\ ReturnedOk) =>
        response = ParseOf(request.op,
                           RequestMatch.amount \o <<" ">>
                               \o FirstSpelling(RequestMatch.unit))

C11_Witness ==
    /\ Done("nearSchema.parse") /\ request.arg.type = "string" /\ ReturnedOk
    /\ RequestMatch.unit = <<CAPITAL_MU, "N", "E", "A", "R">>
    /\ RequestMatch.amount = <<"2", "5", ".", "5">>
    /\ Len(request.arg.str) = 11

DoneUtil(object, member) ==
    pc = "done" /\ request.op = object /\ request.member = member

\* 10^lo <= x < 10^hi for a bigint x; lo = -1 leaves out the lower limit
\* and hi = -1 the upper one
Within(x, lo, hi) ==
    /\ lo # -1 => ~BigLt(x, Big(FALSE, Pow10(lo)))
    /\ hi # -1 => BigLt(x, Big(FALSE, Pow10(hi)))

\* C12: format picks the largest tier in which the value is at least 1:
\* gasUtils.format renders in TGas iff x >= 10^12, in GGas iff
\* 10^9 <= x < 10^12, raw with " Gas" iff x < 10^9; nearUtils.format renders
\* in NEAR iff x >= 10^24, in mNEAR iff 10^21 <= x < 10^24, in micro-NEAR iff
\* 10^18 <= x < 10^21, raw with " yocto" iff x < 10^18; and the number
\* rendered in a tier is never below 1.
C12_FormatTierThresholds ==
    /\ DoneUtil("gasUtils", "format") =>
          /\ response.value.suffix = " TGas" <=> Within(request.arg, 12, -1)
          /\ response.value.suffix = " GGas" <=> Within(request.arg, 9, 12)
          /\ response.value.suffix = " Gas" <=> Within(request.arg, -1, 9)
          /\ response.value.suffix # " Gas" => AtLeastOne(response.value.value)
    /\ DoneUtil("nearUtils", "format") =>
          /\ response.value.suffix = " NEAR" <=> Within(request.arg, 24, -1)
          /\ response.value.suffix = " mNEAR" <=> Within(request.arg, 21, 24)
          /\ response.value.suffix = " μNEAR" <=> Within(request.arg, 18, 21)
          /\ response.value.suffix = " yocto" <=> Within(request.arg, -1, 18)
          /\ response.value.suffix # " yocto" =>
                AtLeastOne(response.value.value)

\* the tiers that have a to- and a from-conversion, with the power of ten
\* the specification gives each
ConvertedTiers ==
    { [object |-> "gasUtils", to |-> "toTGas", from |-> "fromTGas", scale |-> 12],
      [object |-> "gasUtils", to |-> "toGGas", from |-> "fromGGas", scale |-> 9],
      [object |-> "nearUtils", to |-> "toNEAR", from |-> "fromNEAR", scale |-> 24],
      [object |-> "nearUtils", to |-> "toMilliNEAR", from |-> "fromMilliNEAR",
       scale |-> 21],
      [object |-> "nearUtils", to |-> "toMicroNEAR", from |-> "fromMicroNEAR",
       scale |-> 18] }

\* the utility member of an object applied to an argument
Utility(object, member, arg) ==
    IF object = "gasUtils" THEN gasUtils(member, arg) ELSE nearUtils(member, arg)

\* the bigint x >= 0 is an exact multiple of 10^scale
MultipleOfTenPow(x, scale) ==
    ~x.neg /\ DivMod(x.mag, Pow10(scale)).r = <<>>

\* C13: for every tier and every quantity x that is an exact multiple of
\* the tier's power of ten, fromTier(toTier(x)) returns x exactly (e.g.
\* nearUtils.fromNEAR(nearUtils.toNEAR(10^24)) = 10^24).
C13_RoundTrip ==
    \A t \in ConvertedTiers :
        (DoneUtil(t.object, t.to) /\ MultipleOfTenPow(request.arg, t.scale)) =>
            Utility(t.object, t.from, response.value) = Value(request.arg)

\* the constructors and from-conversions, each with the parser and the
\* suffix of its tier
FromTiers ==
    { [object |-> "gas", member |-> "tgas", parser |-> "gasSchema.parse",
       suffix |-> <<"T", "G", "a", "s">>],
      [object |-> "gas", member |-> "ggas", parser |-> "gasSchema.parse",
       suffix |-> <<"G", "G", "a", "s">>],
      [object |-> "gasUtils", member |-> "fromTGas", parser |-> "gasSchema.parse",
       suffix |-> <<"T", "G", "a", "s">>],
      [object |-> "gasUtils", member |-> "fromGGas", parser |-> "gasSchema.parse",
       suffix |-> <<"G", "G", "a", "s">>],
      [object |-> "near", member |-> "near", parser |-> "nearSchema.parse",
       suffix |-> <<"N", "E", "A", "R">>],
      [object |-> "near", member |-> "milli", parser |-> "nearSchema.parse",
       suffix |-> <<"m", "N", "E", "A", "R">>],
      [object |-> "near", member |-> "micro", parser |-> "nearSchema.parse",
       suffix |-> <<SMALL_MU, "N", "E", "A", "R">>],
      [object |-> "nearUtils", member |-> "fromNEAR", parser |-> "nearSchema.parse",
       suffix |-> <<"N", "E", "A", "R">>],
      [object |-> "nearUtils", member |-> "fromMilliNEAR",
       parser |-> "nearSchema.parse", suffix |-> <<"m", "N", "E", "A", "R">>],
      [object |-> "nearUtils", member |-> "fromMicroNEAR",
       parser |-> "nearSchema.parse", suffix |-> <<SMALL_MU, "N", "E", "A", "R">>] }

\* C14: for every tier and every amount a >= 0 written as an accepted
\* numeral n, the from-conversion and the constructor of the tier, called
\* with a, give what the parser gives for "n <suffix>".
C14_FromAgreesWithParser ==
    \A t \in FromTiers :
        DoneUtil(t.object, t.member) =>
            \A n \in Numerals :
                request.arg = Num(FALSE, parseFloat(n)) =>
                    response = ParseOf(t.parser, n \o <<" ">> \o t.suffix)

C14_Witness ==
    /\ DoneUtil("gasUtils", "fromTGas")
    /\ request.arg = Num(FALSE, parseFloat(<<"2", "5", ".", "5">>))
    /\ ReturnedOk
    /\ response.value = Big(FALSE, MulSmall(Pow10(11), 255))
    /\ response = ParseOf("gasSchema.parse",
                          <<"2", "5", ".", "5", " ", "T", "G", "a", "s">>)

BaseUnitSuffixes ==
    { <<"g", "a", "s">>, <<"y", "o", "c", "t", "o">>,
      <<"y", "o", "c", "t", "o", "n", "e", "a", "r">> }

\* the integer written before the decimal point of a numeral
IntegerPart(numeral) ==
    FromDigits([i \in 1..(SkipDigits(numeral, 1) - 1) |-> DigitVal(numeral[i])])

\* C16: for the base-unit suffixes (Gas, yocto, yoctoNEAR) the fraction is
\* discarded and the result is exactly the integer written before the
\* decimal point, for every digit string d and fraction f.
C16_BaseUnitIntegerPart ==
    (/\ DoneParse /\ request.arg.type = "string" /\ RequestMatch.matched
     /\ toLowerCase(RequestMatch.unit) \in BaseUnitSuffixes) =>
        /\ ReturnedOk
        /\ response.value = Big(FALSE, IntegerPart(RequestMatch.amount))

\* the outcome of the request in the plain variant
plain_Outcome ==
    CASE request.op = "gasSchema.parse" -> Parse(plain_gasSchema(request.arg))
      [] request.op = "nearSchema.parse" -> Parse(plain_nearSchema(request.arg))
      [] request.op = "callFunction" -> plain_callFunction(request.arg)
      [] request.op = "gasUtils" -> plain_gasUtils(request.member, request.arg)
      [] request.op = "nearUtils" -> plain_nearUtils(request.member, request.arg)

\* the operations that both variants have
InBothVariants ==
    request.op \in {"gasSchema.parse", "nearSchema.parse", "callFunction",
                    "gasUtils", "nearUtils"}

\* C17: for every input, gasSchema, nearSchema, callFunction, gasUtils and
\* nearUtils of the variant with template-literal input types and branded
\* outputs give the result or error, and the warnings, that the plain variant
\* gives.
C17_VariantsAgree ==
    (pc = "done" /\ InBothVariants) => response = plain_Outcome

C17_Witness ==
    /\ Done("callFunction") /\ ReturnedOk
    /\ Len(response.warnings) = 2
    /\ response = plain_Outcome

====
